---- MODULE Spec2Model ----
(***************************************************************************)
(* A model of the storefront front end: the ProductList search filter, and *)
(* the three AI modal panels (describe, fashion advice, smart sell) with   *)
(* their requests to the AI backend and their use of the browser's one     *)
(* speech synthesizer (window.speechSynthesis).                            *)
(*                                                                         *)
(* Strings that the code inspects (the search query, the product fields,   *)
(* the smart-sell query text) are sequences of characters, so that         *)
(* toLowerCase, trim and includes are computed and not assumed.            *)
(***************************************************************************)
EXTENDS Integers, Sequences, FiniteSets, TLC

\* ------------------------------------------------------------- bounds
\* The longest product list the backend returns.
MaxProducts == 2
\* The longest search query typed into the search bar.
MaxQueryLen == 2

\* ------------------------------------------------------------ strings
\* The alphabet: a letter in both cases, a second letter, and whitespace.
Chars == {"a", "A", "b", " "}

\* All strings over S of length at most n.
StringsUpTo(S, n) == UNION {[1..k -> S] : k \in 0..n}

\* String.prototype.toLowerCase, one character.
toLowerCaseChar(c) == IF c = "A" THEN "a" ELSE c

\* String.prototype.toLowerCase.
toLowerCase(s) == [i \in 1..Len(s) |-> toLowerCaseChar(s[i])]

\* White space as String.prototype.trim sees it.
IsWhiteSpace(c) == c = " "

RECURSIVE trimStart(_)
\* Drops the leading white space.
trimStart(s) ==
    IF s # <<>> /\ IsWhiteSpace(Head(s)) THEN trimStart(Tail(s)) ELSE s

RECURSIVE trimEnd(_)
\* Drops the trailing white space.
trimEnd(s) ==
    IF s # <<>> /\ IsWhiteSpace(s[Len(s)])
    THEN trimEnd(SubSeq(s, 1, Len(s) - 1))
    ELSE s

\* String.prototype.trim.
trim(s) == trimEnd(trimStart(s))

RECURSIVE indexOfFrom(_, _, _)
\* String.prototype.indexOf from position k (1-based); 0 when q does not occur.
indexOfFrom(s, q, k) ==
    IF k + Len(q) - 1 > Len(s) THEN 0
    ELSE IF SubSeq(s, k, k + Len(q) - 1) = q THEN k
    ELSE indexOfFrom(s, q, k + 1)

\* String.prototype.includes.
includes(s, q) == indexOfFrom(s, q, 1) # 0

\* A string is truthy in JavaScript when it is not empty.
Truthy(s) == s # <<>>

\* ----------------------------------------------------------- products
\* The product fields the backend serves in this model.
ProductNames == {<<"A", "b">>, <<"b">>}
ProductDescriptions == {<<>>, <<"b", " ", "A">>}
ProductCategories == {<<>>, << <<"a">> >>, << <<"b", "a">>, <<"A", " ">> >>}

\* The Product type: name, description and the category labels.
Product ==
    [name : ProductNames, description : ProductDescriptions,
     categories : ProductCategories]

\* The product lists the backend may return.
ProductLists == UNION {[1..k -> Product] : k \in 0..MaxProducts}

\* What the search bar can hold.
Queries == StringsUpTo(Chars, MaxQueryLen)

VARIABLES
    products,       \* useProducts().products: the fetched list
    loading,        \* useProducts().loading
    listError,      \* useProducts().error: Null or a message
    searchQuery,    \* Layout's searchQuery state, shared through SearchContext
    images,         \* the img elements of the product pictures on the page
    highlight       \* a call of highlightSearchTerm: its arguments and its value

searchVars ==
    <<products, loading, listError, searchQuery, images, highlight>>

VARIABLES
    speechInWindow,  \* 'speechSynthesis' in window
    open,            \* showDescribe / showFashion / showSmartSell
    selectedImage,   \* selectedImage / userImage: a file is selected
    queryText,       \* SmartProductSell's queryText
    isPlaying,       \* the panel's isPlaying flag
    isPaused,        \* the panel's isPaused flag
    speechSupported, \* the panel's speechSupported state
    speechRef,       \* speechRef.current is an utterance (not null)
    isLoading,       \* the hook's isLoading
    error,           \* the hook's error: Null or a message
    result,          \* the hook's result: Null or the response's text
    requests,        \* requests on the wire, of each mounted panel
    sent,            \* the arguments of each mounted panel's request on the wire
    orphanRequests,  \* requests on the wire whose panel has unmounted
    synthQueue,      \* window.speechSynthesis: its queue of utterances
    synthPaused,     \* window.speechSynthesis.paused
    utt,             \* each utterance: owner panel and phase
    eventQueue,      \* utterance events fired and not yet delivered
    productProp,     \* ImageDescribe is mounted with a product prop
    isLoadingProductImage \* ImageDescribe's isLoadingProductImage state

panelVars ==
    <<speechInWindow, open, selectedImage, queryText, isPlaying, isPaused,
      speechSupported, speechRef, isLoading, error, result, requests, sent,
      orphanRequests, synthQueue, synthPaused, utt, eventQueue,
      productProp, isLoadingProductImage>>

VARIABLES
    calls            \* the calls of the service wrappers in progress

serviceVars == <<calls>>

\* The product prop of ImageDescribe and the load of its picture.
productVars == <<productProp, isLoadingProductImage>>

vars == <<searchVars, panelVars, serviceVars>>

\* null, for a state that holds a string or nothing.
Null == "null"

\* --------------------------------------------------- the search filter
\* Array.prototype.some over the category labels.
someCategory(categories, query) ==
    \E i \in 1..Len(categories) : includes(toLowerCase(categories[i]), query)

\* The predicate with === in place of includes.
productMatchesWhole(product, query) ==
    \/ toLowerCase(product.name) = query
    \/ toLowerCase(product.description) = query
    \/ \E i \in 1..Len(product.categories) :
          toLowerCase(product.categories[i]) = query

\* The predicate of products.filter in filteredProducts.
productMatches(product, query) ==
    \/ includes(toLowerCase(product.name), query)
    \/ includes(toLowerCase(product.description), query)
    \/ someCategory(product.categories, query)

RECURSIVE filter(_, _)
\* Array.prototype.filter with the predicate above: a new list, in order.
filter(list, query) ==
    IF list = <<>> THEN <<>>
    ELSE IF productMatches(Head(list), query)
         THEN <<Head(list)>> \o filter(Tail(list), query)
         ELSE filter(Tail(list), query)

\* The same memo with the early return yielding no product at all.
filteredProductsOfEmpty(list, q) ==
    IF ~Truthy(trim(q)) THEN <<>> ELSE filter(list, trim(toLowerCase(q)))

\* The same memo without the trim of the lower-cased query.
filteredProductsOfUntrimmed(list, q) ==
    IF ~Truthy(trim(q)) THEN list ELSE filter(list, toLowerCase(q))

\* The same memo with trimStart in place of trim on the lower-cased query.
filteredProductsOfTrimStart(list, q) ==
    IF ~Truthy(trim(q)) THEN list ELSE filter(list, trimStart(toLowerCase(q)))

\* The useMemo of ProductList, as a function of its two dependencies.
filteredProductsOf(list, q) ==
    IF ~Truthy(trim(q)) THEN list ELSE filter(list, trim(toLowerCase(q)))

\* The list ProductList renders.
filteredProducts == filteredProductsOf(products, searchQuery)

\* ------------------------------------------------ the search highlight
\* The longest text highlightSearchTerm is called with.
MaxTextLen == 3

\* The alphabet of texts and terms: letters, white space, and the character
\* '.' that a regular expression reads as "any character".
HighlightChars == {"a", "A", "b", ".", " "}

HighlightTexts == StringsUpTo(HighlightChars, MaxTextLen)
HighlightTerms == StringsUpTo(HighlightChars, MaxQueryLen)

\* One character of the pattern against one character of the text, under the
\* flag i: '.' matches every character, a letter matches itself in both cases.
patternCharMatches(pc, c) ==
    IF pc = "." THEN TRUE ELSE toLowerCaseChar(pc) = toLowerCaseChar(c)

\* new RegExp(`(${searchTerm})`, 'gi') matches s at offset k (0-based).
matchAt(term, s, k) ==
    /\ k + Len(term) <= Len(s)
    /\ \A i \in 1..Len(term) : patternCharMatches(term[i], s[k + i])

RECURSIVE splitFrom(_, _, _, _)
\* String.prototype.split with the regular expression: p is the end of the
\* last match, q the offset tried; the text before a match and the captured
\* match are both parts.
splitFrom(s, term, p, q) ==
    IF q >= Len(s) THEN <<SubSeq(s, p + 1, Len(s))>>
    ELSE IF matchAt(term, s, q)
         THEN <<SubSeq(s, p + 1, q), SubSeq(s, q + 1, q + Len(term))>>
                 \o splitFrom(s, term, q + Len(term), q + Len(term))
         ELSE splitFrom(s, term, p, q + 1)

\* text.split(regex).
split(s, term) == splitFrom(s, term, 0, 0)

RECURSIVE execFrom(_, _, _)
\* The offset of the first match of the expression in s at or after k, -1 if
\* there is none.
execFrom(term, s, k) ==
    IF k + Len(term) > Len(s) THEN -1
    ELSE IF matchAt(term, s, k) THEN k
    ELSE execFrom(term, s, k + 1)

\* regex.test(part) of an expression with the flag g: the search starts at
\* lastIndex; a match moves lastIndex to its end, no match sets it to 0.
regexTest(term, part, lastIndex) ==
    LET k == IF lastIndex > Len(part) THEN -1 ELSE execFrom(term, part, lastIndex)
    IN  IF k = -1 THEN [result |-> FALSE, lastIndex |-> 0]
        ELSE [result |-> TRUE, lastIndex |-> k + Len(term)]

RECURSIVE mapParts(_, _, _)
\* parts.map(part => regex.test(part) ? <mark>{part}</mark> : part), the
\* expression's lastIndex carried from one part to the next.
mapParts(term, parts, lastIndex) ==
    IF parts = <<>> THEN <<>>
    ELSE LET t == regexTest(term, Head(parts), lastIndex)
         IN  <<[part |-> Head(parts), marked |-> t.result]>>
                \o mapParts(term, Tail(parts), t.lastIndex)

\* highlightSearchTerm(text, searchTerm): the text itself for a blank term,
\* else the parts, each marked or not.
highlightSearchTerm(text, searchTerm) ==
    IF ~Truthy(trim(searchTerm))
    THEN <<[part |-> text, marked |-> FALSE]>>
    ELSE mapParts(searchTerm, split(text, searchTerm), 0)

\* highlightSearchTerm is not being called.
NoHighlight == [pc |-> "idle", text |-> <<>>, term |-> <<>>, parts |-> <<>>]

highlightFrame ==
    <<products, loading, listError, searchQuery, images, panelVars,
      serviceVars>>

\* A component calls highlightSearchTerm(text, searchTerm).
CallHighlight ==
    /\ highlight.pc = "idle"
    /\ \E text \in HighlightTexts, term \in HighlightTerms :
          highlight' = [pc |-> "called", text |-> text, term |-> term,
                        parts |-> <<>>]
    /\ UNCHANGED highlightFrame

\* The call returns its value.
HighlightReturns ==
    /\ highlight.pc = "called"
    /\ highlight' =
          [highlight EXCEPT
             !.pc = "returned",
             !.parts = highlightSearchTerm(highlight.text, highlight.term)]
    /\ UNCHANGED highlightFrame

\* The caller renders the value it got.
HighlightRendered ==
    /\ highlight.pc = "returned"
    /\ highlight' = NoHighlight
    /\ UNCHANGED highlightFrame

HighlightNext ==
    \/ CallHighlight
    \/ HighlightReturns
    \/ HighlightRendered

\* ------------------------------------------------ the product pictures
\* The img elements followed at once: the cards of the grid, the picture of
\* the product page.
MaxImages == 3

\* The most times the source of one img is replaced.
MaxReplacements == 2

ImageIds == 1..MaxImages

\* URLs, as sequences of their parts.
PlaceholderName == <<"placeholder-product.svg">>
Placeholder == <<"/", "placeholder-product.svg">>

\* product.picture: a file of the catalog, or a URL that itself ends in the
\* placeholder's name.
Pictures == {<<"/", "a.jpg">>, <<"/", "cdn", "/", "placeholder-product.svg">>}

\* No img element is rendered.
NoImage == [src |-> <<>>, status |-> "none", onerror |-> Null, replaced |-> 0]

\* <img src={product.picture} onError={...}>, just rendered: React listens
\* for the error event itself, the element's onerror property is null.
newImage(picture) ==
    [src |-> picture, status |-> "loading", onerror |-> Null, replaced |-> 0]

\* The onError handler without its test of the source.
onErrorUnguarded(img) ==
    [img EXCEPT !.src = Placeholder, !.status = "loading",
                !.onerror = Null, !.replaced = @ + 1]

\* The onError handler: if (!target.src.includes('placeholder-product.svg'))
\* { target.src = '/placeholder-product.svg'; target.onerror = null; }.
\* A new src starts a new load.
onError(img) ==
    IF ~includes(img.src, PlaceholderName)
    THEN [img EXCEPT !.src = Placeholder, !.status = "loading",
                     !.onerror = Null, !.replaced = @ + 1]
    ELSE img

\* The load of the source of img i succeeds.
ImageLoads(i) ==
    /\ images[i].status = "loading"
    /\ images' = [images EXCEPT ![i].status = "loaded"]
    /\ UNCHANGED <<products, loading, listError, searchQuery, highlight,
                   panelVars, serviceVars>>

\* The load of the source of img i fails: the error event is dispatched and
\* the handler runs.
ImageFails(i) ==
    /\ images[i].status = "loading"
    /\ images[i].replaced < MaxReplacements
    /\ images' = [images EXCEPT ![i] = onError([@ EXCEPT !.status = "broken"])]
    /\ UNCHANGED <<products, loading, listError, searchQuery, highlight,
                   panelVars, serviceVars>>

ImagesNext ==
    \/ \E i \in ImageIds : ImageLoads(i)
    \/ \E i \in ImageIds : ImageFails(i)

\* ------------------------------------------------ the product list page
\* The returns of ProductList with the test of the filtered list put before
\* the test of the catalog.
ProductListViewNoMatchFirst ==
    IF loading THEN "spinner"
    ELSE IF listError # Null /\ listError # "" THEN "error"
    ELSE IF Truthy(trim(searchQuery)) /\ Len(filteredProducts) = 0 THEN "no-match"
    ELSE IF Len(products) = 0 THEN "empty-catalog"
    ELSE "grid"

\* What ProductList returns: if (loading) ...; if (error) ...;
\* if (products.length === 0) ...; if (searchQuery.trim() &&
\* filteredProducts.length === 0) ...; the grid of filteredProducts.
ProductListView ==
    IF loading THEN "spinner"
    ELSE IF listError # Null /\ listError # "" THEN "error"
    ELSE IF Len(products) = 0 THEN "empty-catalog"
    ELSE IF Truthy(trim(searchQuery)) /\ Len(filteredProducts) = 0 THEN "no-match"
    ELSE "grid"

\* useProducts on mount: the list is being fetched.
SearchInit ==
    /\ products = <<>>
    /\ loading = TRUE
    /\ listError = Null
    /\ searchQuery = <<>>
    /\ images = [i \in ImageIds |-> NoImage]
    /\ highlight = NoHighlight

\* The fetch of useProducts answers with a list.
FetchProductsSucceed ==
    /\ loading
    /\ \E list \in ProductLists : products' = list
    /\ loading' = FALSE
    /\ listError' = Null
    /\ UNCHANGED <<searchQuery, images, highlight,
                   panelVars, serviceVars>>

\* The fetch of useProducts fails.
FetchProductsFail ==
    /\ loading
    /\ loading' = FALSE
    /\ listError' = "Failed to load products"
    /\ UNCHANGED <<products, searchQuery, images, highlight,
                   panelVars, serviceVars>>

\* ErrorMessage's retry button: refetch.
Refetch ==
    /\ ~loading
    /\ listError # Null
    /\ loading' = TRUE
    /\ listError' = Null
    /\ UNCHANGED <<products, searchQuery, images, highlight,
                   panelVars, serviceVars>>

\* An onChange that keeps the matches of the new query as the list.
SetSearchQueryNarrowsList ==
    /\ \E q \in Queries :
          /\ q # searchQuery
          /\ searchQuery' = q
          /\ products' = filteredProductsOf(products, q)
    /\ UNCHANGED <<loading, listError, images, highlight,
                   panelVars, serviceVars>>

\* SearchBar's onChange: the input's new value becomes the query.
SetSearchQuery ==
    /\ \E q \in Queries : q # searchQuery /\ searchQuery' = q
    /\ UNCHANGED <<products, loading, listError, images, highlight,
                   panelVars, serviceVars>>

SearchNext ==
    \/ FetchProductsSucceed
    \/ FetchProductsFail
    \/ Refetch
    \/ SetSearchQuery

\* ------------------------------------------------------ the AI panels
\* The most modal panels open at once.
MaxOpen == 2
\* The most HTTP requests to the AI backend on the wire at once.
MaxRequests == 2
\* The most utterances the browser still knows: queued, speaking, or with an
\* event not yet delivered to the page.
MaxUtterances == 2

\* ImageDescribe, FashionAssistant and SmartProductSell.
Panels == {"describe", "fashion", "smartsell"}

\* What the smart-sell textarea can hold: empty, blank, and text in blanks.
QueryTexts == {<<>>, <<" ">>, <<" ", "a">>}

\* The text of a successful response (description or sell_text); the
\* backend may answer with an empty text.
ResponseTexts == {"", "Looks great"}

\* The message of a failed request.
ErrorMessages == {"Network Error"}

\* The utterances the browser can hold.
UtteranceIds == 1..MaxUtterances

\* No utterance in this slot.
FreeUtterance == [owner |-> "none", phase |-> "free"]

\* The requests on the wire.
TotalRequests ==
    requests["describe"] + requests["fashion"] + requests["smartsell"]
        + orphanRequests

\* The panels mounted now.
OpenPanels == {p \in Panels : open[p]}

\* The application before any panel is opened.
\* No request of the panel is on the wire.
NoRequest == [image |-> FALSE, text |-> <<>>]

PanelInit ==
    /\ speechInWindow \in BOOLEAN
    /\ open = [p \in Panels |-> FALSE]
    /\ selectedImage = [p \in Panels |-> FALSE]
    /\ queryText = [p \in Panels |-> <<>>]
    /\ isPlaying = [p \in Panels |-> FALSE]
    /\ isPaused = [p \in Panels |-> FALSE]
    /\ speechSupported = [p \in Panels |-> FALSE]
    /\ speechRef = [p \in Panels |-> FALSE]
    /\ isLoading = [p \in Panels |-> FALSE]
    /\ error = [p \in Panels |-> Null]
    /\ result = [p \in Panels |-> Null]
    /\ requests = [p \in Panels |-> 0]
    /\ sent = [p \in Panels |-> NoRequest]
    /\ orphanRequests = 0
    /\ synthQueue = <<>>
    /\ synthPaused = FALSE
    /\ utt = [id \in UtteranceIds |-> FreeUtterance]
    /\ eventQueue = <<>>
    /\ productProp = FALSE
    /\ isLoadingProductImage = FALSE

\* ------------------------------------------------ window.speechSynthesis
\* What a speech handler of panel p reads and writes: the panel's flags and
\* ref, and the browser's synthesizer. threw: the handler ended in a TypeError.
SpeechCtx(p) ==
    [isPlaying |-> isPlaying[p], isPaused |-> isPaused[p],
     speechRef |-> speechRef[p], hasSynth |-> speechInWindow,
     queue |-> synthQueue, paused |-> synthPaused, utt |-> utt,
     events |-> eventQueue, threw |-> FALSE]

\* A use of window.speechSynthesis in a window that has none.
Throw(c) == [c EXCEPT !.threw = TRUE]

\* The utterances in the synthesizer's queue.
Queued(q) == {q[i] : i \in 1..Len(q)}

\* speechSynthesis.cancel(): every utterance leaves the queue and gets an
\* error event (SpeechSynthesisErrorEvent.error is "canceled"); the paused
\* state is left as it is.
synthCancel(c) ==
    IF c.threw THEN c
    ELSE IF ~c.hasSynth THEN Throw(c)
    ELSE [c EXCEPT
            !.queue = <<>>,
            !.utt = [id \in UtteranceIds |->
                        IF id \in Queued(c.queue)
                        THEN [c.utt[id] EXCEPT !.phase = "done"]
                        ELSE c.utt[id]],
            !.events = c.events \o
                [i \in 1..Len(c.queue) |->
                    [id |-> c.queue[i], type |-> "error", code |-> "canceled"]]]

\* The slot of a new SpeechSynthesisUtterance: the first free one, 0 if none.
NewUtteranceId(u) ==
    IF \E id \in UtteranceIds : u[id].phase = "free"
    THEN CHOOSE id \in UtteranceIds :
            /\ u[id].phase = "free"
            /\ \A j \in UtteranceIds : u[j].phase = "free" => id <= j
    ELSE 0

\* speechSynthesis.speak(utterance), the utterance's handlers being those of
\* panel p: the utterance joins the end of the queue.
synthSpeak(c, p) ==
    LET id == NewUtteranceId(c.utt)
    IN  IF c.threw \/ id = 0 THEN c
        ELSE IF ~c.hasSynth THEN Throw(c)
        ELSE [c EXCEPT !.utt[id] = [owner |-> p, phase |-> "queued"],
                       !.queue = Append(c.queue, id)]

\* speechSynthesis.speaking: an utterance has begun and has not completed.
synthSpeaking(c) == \E id \in Queued(c.queue) : c.utt[id].phase = "speaking"

\* speechSynthesis.pause().
synthPause(c) ==
    IF c.threw THEN c
    ELSE IF ~c.hasSynth THEN Throw(c)
    ELSE [c EXCEPT !.paused = TRUE]

\* speechSynthesis.resume().
synthResume(c) ==
    IF c.threw THEN c
    ELSE IF ~c.hasSynth THEN Throw(c)
    ELSE [c EXCEPT !.paused = FALSE]

\* setIsPlaying(a); setIsPaused(b).
setFlags(c, a, b) ==
    IF c.threw THEN c ELSE [c EXCEPT !.isPlaying = a, !.isPaused = b]

\* --------------------------------------------------- the speech handlers
\* play without the cancel before speak.
playNoCancel(c, p, supported, text) ==
    IF ~supported \/ text = Null \/ text = "" THEN c
    ELSE synthSpeak([c EXCEPT !.speechRef = TRUE], p)

\* playDescription / playAdvice / playRecommendation.
play(c, p, supported, text) ==
    IF ~supported \/ text = Null \/ text = "" THEN c
    ELSE LET c1 == synthCancel(c)
             c2 == IF c1.threw THEN c1 ELSE [c1 EXCEPT !.speechRef = TRUE]
         IN  synthSpeak(c2, p)

\* pause without the test that something is speaking.
pauseNotSpeaking(c, supported) ==
    IF ~supported THEN c
    ELSE IF ~c.hasSynth THEN Throw(c)
    ELSE IF ~c.paused
         THEN [synthPause(c) EXCEPT !.isPaused = TRUE]
         ELSE c

\* pauseDescription / pauseAdvice / pauseRecommendation.
pause(c, supported) ==
    IF ~supported THEN c
    ELSE IF ~c.hasSynth THEN Throw(c)
    ELSE IF synthSpeaking(c) /\ ~c.paused
         THEN [synthPause(c) EXCEPT !.isPaused = TRUE]
         ELSE c

\* resumeDescription / resumeAdvice / resumeRecommendation.
resume(c, supported) ==
    IF ~supported THEN c
    ELSE IF ~c.hasSynth THEN Throw(c)
    ELSE IF c.paused
         THEN [synthResume(c) EXCEPT !.isPaused = FALSE]
         ELSE c

\* stop that forgets setIsPaused(false).
stopKeepsPaused(c, supported) ==
    IF ~supported THEN c
    ELSE [synthCancel(c) EXCEPT !.isPlaying = FALSE]

\* stopDescription / stopAdvice / stopRecommendation.
stop(c, supported) ==
    IF ~supported THEN c
    ELSE setFlags(synthCancel(c), FALSE, FALSE)

\* The flags and the ref kept in one place for all the panels.
ApplySpeechShared(p, c) ==
    /\ isPlaying' = [q \in Panels |-> IF open[q] THEN c.isPlaying ELSE FALSE]
    /\ isPaused' = [q \in Panels |-> IF open[q] THEN c.isPaused ELSE FALSE]
    /\ speechRef' = [speechRef EXCEPT ![p] = c.speechRef]
    /\ synthQueue' = c.queue
    /\ synthPaused' = c.paused
    /\ utt' = c.utt
    /\ eventQueue' = c.events

\* The handler's writes become the next state.
ApplySpeech(p, c) ==
    /\ isPlaying' = [isPlaying EXCEPT ![p] = c.isPlaying]
    /\ isPaused' = [isPaused EXCEPT ![p] = c.isPaused]
    /\ speechRef' = [speechRef EXCEPT ![p] = c.speechRef]
    /\ synthQueue' = c.queue
    /\ synthPaused' = c.paused
    /\ utt' = c.utt
    /\ eventQueue' = c.events

speechVars ==
    <<isPlaying, isPaused, speechRef, synthQueue, synthPaused, utt, eventQueue>>

\* ------------------------------------------------------- what is rendered
\* The setup view: {!result ? ... }.
SetupView(p) == open[p] /\ result[p] = Null

\* The result view.
ResultView(p) == open[p] /\ result[p] # Null

\* {speechSupported && <div className="voice-controls">}.
VoiceControls(p) == ResultView(p) /\ speechSupported[p]

\* {!isPlaying ? <Play> : ...}.
PlayButton(p) == VoiceControls(p) /\ ~isPlaying[p]

\* {!isPaused ? <Pause> : <Resume>} under isPlaying.
PauseButton(p) == VoiceControls(p) /\ isPlaying[p] /\ ~isPaused[p]

ResumeButton(p) == VoiceControls(p) /\ isPlaying[p] /\ isPaused[p]

\* <Stop> under isPlaying.
StopButton(p) == VoiceControls(p) /\ isPlaying[p]

\* ------------------------------------------------------ the user's clicks
othersOfSpeech ==
    <<searchVars, serviceVars, productVars, speechInWindow, open, selectedImage, queryText,
      speechSupported, isLoading, error, result, requests, sent,
      orphanRequests>>

\* A click on Play.
Play(p) ==
    /\ PlayButton(p)
    /\ NewUtteranceId(utt) # 0
    /\ ApplySpeech(p, play(SpeechCtx(p), p, speechSupported[p], result[p]))
    /\ UNCHANGED othersOfSpeech

\* A click on Pause.
Pause(p) ==
    /\ PauseButton(p)
    /\ ApplySpeech(p, pause(SpeechCtx(p), speechSupported[p]))
    /\ UNCHANGED othersOfSpeech

\* A click on Resume.
Resume(p) ==
    /\ ResumeButton(p)
    /\ ApplySpeech(p, resume(SpeechCtx(p), speechSupported[p]))
    /\ UNCHANGED othersOfSpeech

\* A click on Stop.
Stop(p) ==
    /\ StopButton(p)
    /\ ApplySpeech(p, stop(SpeechCtx(p), speechSupported[p]))
    /\ UNCHANGED othersOfSpeech

\* ----------------------------------------------- the browser's synthesizer
\* The synthesizer begins to speak the head of its queue: a start event.
SynthStarts ==
    /\ synthQueue # <<>>
    /\ ~synthPaused
    /\ utt[Head(synthQueue)].phase = "queued"
    /\ utt' = [utt EXCEPT ![Head(synthQueue)].phase = "speaking"]
    /\ eventQueue' =
          Append(eventQueue,
                 [id |-> Head(synthQueue), type |-> "start", code |-> ""])
    /\ UNCHANGED <<isPlaying, isPaused, speechRef, synthQueue, synthPaused>>
    /\ UNCHANGED othersOfSpeech

\* The synthesizer has spoken the head of its queue to the end: an end event.
SynthEnds ==
    /\ synthQueue # <<>>
    /\ ~synthPaused
    /\ utt[Head(synthQueue)].phase = "speaking"
    /\ utt' = [utt EXCEPT ![Head(synthQueue)].phase = "done"]
    /\ synthQueue' = Tail(synthQueue)
    /\ eventQueue' =
          Append(eventQueue,
                 [id |-> Head(synthQueue), type |-> "end", code |-> ""])
    /\ UNCHANGED <<isPlaying, isPaused, speechRef, synthPaused>>
    /\ UNCHANGED othersOfSpeech

\* The synthesizer fails on the head of its queue: an error event.
SynthFails ==
    /\ synthQueue # <<>>
    /\ utt' = [utt EXCEPT ![Head(synthQueue)].phase = "done"]
    /\ synthQueue' = Tail(synthQueue)
    /\ eventQueue' =
          Append(eventQueue,
                 [id |-> Head(synthQueue), type |-> "error",
                  code |-> "synthesis-failed"])
    /\ UNCHANGED <<isPlaying, isPaused, speechRef, synthPaused>>
    /\ UNCHANGED othersOfSpeech

\* utterance.onstart.
onstart(flags) == [flags EXCEPT !.isPlaying = TRUE, !.isPaused = FALSE]

\* utterance.onend.
onend(flags) == [flags EXCEPT !.isPlaying = FALSE, !.isPaused = FALSE]

\* utterance.onerror.
onerror(flags) == [flags EXCEPT !.isPlaying = FALSE, !.isPaused = FALSE]

\* The handler the utterance has for an event.
handlerOf(type, flags) ==
    CASE type = "start" -> onstart(flags)
      [] type = "end" -> onend(flags)
      [] type = "error" -> onerror(flags)

\* The page handles the oldest utterance event. The handlers are those of the
\* panel instance that made the utterance; after end or error the browser
\* forgets the utterance.
DeliverEvent ==
    /\ eventQueue # <<>>
    /\ LET e == Head(eventQueue)
           p == utt[e.id].owner
           flags == handlerOf(e.type,
                       [isPlaying |-> isPlaying[p], isPaused |-> isPaused[p]])
       IN  /\ eventQueue' = Tail(eventQueue)
           /\ utt' = IF e.type = "start" THEN utt
                     ELSE [utt EXCEPT ![e.id] = FreeUtterance]
           /\ IF p \in Panels
              THEN /\ isPlaying' = [isPlaying EXCEPT ![p] = flags.isPlaying]
                   /\ isPaused' = [isPaused EXCEPT ![p] = flags.isPaused]
              ELSE UNCHANGED <<isPlaying, isPaused>>
    /\ UNCHANGED <<speechRef, synthQueue, synthPaused>>
    /\ UNCHANGED othersOfSpeech

\* ------------------------------------------- the hooks and their requests
\* The state of useDescribe / useFashion / useSmartSell in panel p.
HookState(p) ==
    [isLoading |-> isLoading[p], error |-> error[p], result |-> result[p]]

\* The hook's state on mount, and after reset().
hookInitial == [isLoading |-> FALSE, error |-> Null, result |-> Null]

\* reset().
reset(h) == hookInitial

\* The hook starts a request: the loading indicator shows, and the outcome
\* of the request before it is no longer shown.
hookStart(h) == [h EXCEPT !.isLoading = TRUE, !.error = Null]

\* The hook gets the response.
hookSucceed(h, text) == [h EXCEPT !.isLoading = FALSE, !.result = text]

\* The hook catches the failure: the message becomes the error.
hookFail(h, msg) == [h EXCEPT !.isLoading = FALSE, !.error = msg]

\* A catch that starts the panel over.
catchResets(h) == hookInitial

\* catch (error) { console.error(...) } of handleDescribe / handleGetAdvice /
\* handleGetRecommendation.
catch(h) == h

ApplyHook(p, h) ==
    /\ isLoading' = [isLoading EXCEPT ![p] = h.isLoading]
    /\ error' = [error EXCEPT ![p] = h.error]
    /\ result' = [result EXCEPT ![p] = h.result]

\* The button that sends the request is rendered: {isLoading ? <spinner> :
\* <button>} in the setup view.
RequestButton(p) == SetupView(p) /\ ~isLoading[p]

\* disabled={!selectedImage}, and for smart sell || !queryText.trim().
RequestButtonDisabled(p) ==
    \/ ~selectedImage[p]
    \/ p = "smartsell" /\ ~Truthy(trim(queryText[p]))

\* The arguments the handler gives to the hook with a text as the user typed
\* it: text: queryText.
requestArgsUntrimmed(p) ==
    [image |-> selectedImage[p],
     text |-> IF p = "smartsell" THEN queryText[p] ELSE <<>>]

\* The arguments the handler gives to the hook: describeImage({image:
\* selectedImage, ...}), getFashionAdvice({image: userImage}),
\* getRecommendation({image: userImage, text: queryText.trim(), ...}).
requestArgs(p) ==
    [image |-> selectedImage[p],
     text |-> IF p = "smartsell" THEN trim(queryText[p]) ELSE <<>>]

\* The early returns of the handler: alert(...); return.
MissingInput(p) ==
    \/ ~selectedImage[p]
    \/ p = "smartsell" /\ ~Truthy(trim(queryText[p]))

requestFrame ==
    <<searchVars, serviceVars, productVars, speechInWindow, open, selectedImage, queryText,
      speechSupported, orphanRequests, speechVars>>

\* handleDescribe / handleGetAdvice / handleGetRecommendation, on a click.
handleRequest(p) ==
    /\ RequestButton(p)
    /\ ~RequestButtonDisabled(p)
    /\ TotalRequests < MaxRequests
    /\ IF MissingInput(p)
       THEN UNCHANGED <<isLoading, error, result, requests, sent>>
       ELSE /\ ApplyHook(p, hookStart(HookState(p)))
            /\ requests' = [requests EXCEPT ![p] = @ + 1]
            /\ sent' = [sent EXCEPT ![p] = requestArgs(p)]
    /\ UNCHANGED requestFrame

\* The backend answers a request of mounted panel p: the await returns, the
\* hook stores the response.
requestResolved(p) ==
    /\ requests[p] > 0
    /\ requests' = [requests EXCEPT ![p] = @ - 1]
    /\ sent' = [sent EXCEPT ![p] = IF requests[p] = 1 THEN NoRequest ELSE @]
    /\ \E text \in ResponseTexts :
          ApplyHook(p, hookSucceed(HookState(p), text))
    /\ UNCHANGED requestFrame

\* A request of mounted panel p fails: the hook sets the error and throws
\* again, the handler's catch logs it.
requestRejected(p) ==
    /\ requests[p] > 0
    /\ requests' = [requests EXCEPT ![p] = @ - 1]
    /\ sent' = [sent EXCEPT ![p] = IF requests[p] = 1 THEN NoRequest ELSE @]
    /\ \E msg \in ErrorMessages :
          ApplyHook(p, catch(hookFail(HookState(p), msg)))
    /\ UNCHANGED requestFrame

\* A request whose panel has unmounted ends: nothing is left to update.
OrphanRequestEnds ==
    /\ orphanRequests > 0
    /\ orphanRequests' = orphanRequests - 1
    /\ UNCHANGED <<searchVars, serviceVars, productVars, speechInWindow, open,
                   selectedImage, queryText, speechSupported, isLoading,
                   error, result, requests, sent, speechVars>>

\* {error && ...}: the error is on the screen.
ErrorDisplayed(p) == SetupView(p) /\ error[p] # Null /\ error[p] # ""

\* The Try Again button: in the error block of FashionAssistant and of
\* SmartProductSell; ImageDescribe's error block is the message alone.
RetryButton(p) == p \in {"fashion", "smartsell"} /\ ErrorDisplayed(p)

\* A click on Try Again: onClick={reset}.
TryAgain(p) ==
    /\ RetryButton(p)
    /\ ApplyHook(p, reset(HookState(p)))
    /\ UNCHANGED <<requests, sent>>
    /\ UNCHANGED requestFrame

\* ------------------------------------------------------ the setup view
\* {product && describeType === 'product' ? <product picture> : <ImageUpload>}
\* in ImageDescribe; the other panels always render ImageUpload.
ImageUpload(p) == ~(p = "describe" /\ productProp)

\* How the fetch of the product's picture ends: a response that is ok, a
\* response that is not (!response.ok), a rejected fetch or blob().
FetchOutcomes == {"ok", "not-ok", "rejected"}

\* loadProductImage: try { fetch; if (!response.ok) throw; return new File }
\* catch { throw new Error } finally { setIsLoadingProductImage(false) }.
loadProductImage(outcome) ==
    [threw |-> outcome # "ok", isLoadingProductImage |-> FALSE]

\* The effect's loadImage with a catch that selects the picture all the same.
loadImageIgnoresThrow(selected, loaded) == TRUE

\* The effect's loadImage: try { setSelectedImage(await loadProductImage(...)) }
\* catch { console.error }.
loadImage(selected, loaded) == IF loaded.threw THEN selected ELSE TRUE

\* What the end of the load leaves untouched.
productImageFrame ==
    <<searchVars, serviceVars, productProp, speechInWindow, open, queryText,
      speechSupported, isLoading, error, result, requests, sent,
      orphanRequests, speechVars>>

\* The effect of ImageDescribe mounted with a product: loadProductImage
\* answers, the picture becomes the selected image.
ProductImageLoaded ==
    /\ open["describe"]
    /\ isLoadingProductImage
    /\ LET loaded == loadProductImage("ok")
       IN  /\ isLoadingProductImage' = loaded.isLoadingProductImage
           /\ selectedImage' =
                 [selectedImage EXCEPT
                    !["describe"] = loadImage(selectedImage["describe"], loaded)]
    /\ UNCHANGED productImageFrame

\* loadProductImage throws: the effect logs it, no image is selected.
ProductImageFails ==
    /\ open["describe"]
    /\ isLoadingProductImage
    /\ \E outcome \in FetchOutcomes \ {"ok"} :
          LET loaded == loadProductImage(outcome)
          IN  /\ isLoadingProductImage' = loaded.isLoadingProductImage
              /\ selectedImage' =
                    [selectedImage EXCEPT
                       !["describe"] = loadImage(selectedImage["describe"], loaded)]
    /\ UNCHANGED productImageFrame

\* ImageUpload's onImageSelect: setSelectedImage / setUserImage.
SelectImage(p) ==
    /\ SetupView(p)
    /\ ImageUpload(p)
    /\ ~selectedImage[p]
    /\ selectedImage' = [selectedImage EXCEPT ![p] = TRUE]
    /\ UNCHANGED <<searchVars, serviceVars, productVars, speechInWindow, open, queryText,
                   speechSupported, isLoading, error, result, requests, sent,
                   orphanRequests, speechVars>>

\* The textarea's onChange, or a click on a suggestion: setQueryText.
SetQueryText ==
    /\ SetupView("smartsell")
    /\ \E text \in QueryTexts :
          /\ text # queryText["smartsell"]
          /\ queryText' = [queryText EXCEPT !["smartsell"] = text]
    /\ UNCHANGED <<searchVars, serviceVars, productVars, speechInWindow, open,
                   selectedImage, speechSupported, isLoading, error, result,
                   requests, sent, orphanRequests, speechVars>>

\* ------------------------------------------------- start over, open, close
\* handleStartOver without setUserImage(null) and setQueryText('').
handleStartOverKeepsInputs(p) ==
    /\ ResultView(p)
    /\ ApplyHook(p, reset(HookState(p)))
    /\ ApplySpeech(p, stop(SpeechCtx(p), speechSupported[p]))
    /\ UNCHANGED <<searchVars, serviceVars, productVars, speechInWindow, open,
                   selectedImage, queryText, speechSupported, requests, sent,
                   orphanRequests>>

\* handleReset (ImageDescribe) / handleStartOver (FashionAssistant,
\* SmartProductSell), on a click in the result view: reset(); stop...();
\* setSelectedImage(null); and for smart sell setQueryText('').
handleStartOver(p) ==
    /\ ResultView(p)
    /\ ApplyHook(p, reset(HookState(p)))
    /\ LET c == stop(SpeechCtx(p), speechSupported[p])
       IN  /\ ApplySpeech(p, c)
           /\ IF c.threw
              THEN UNCHANGED <<selectedImage, queryText>>
              ELSE /\ selectedImage' = [selectedImage EXCEPT ![p] = FALSE]
                   /\ queryText' = [queryText EXCEPT ![p] = <<>>]
    /\ UNCHANGED <<searchVars, serviceVars, productVars, speechInWindow, open,
                   speechSupported, requests, sent, orphanRequests>>

\* A click on a header or product-page button: setShow...(true). The panel
\* mounts with its initial state, and its effect reads the browser's support.
Open(p) ==
    /\ ~open[p]
    /\ Cardinality(OpenPanels) < MaxOpen
    /\ open' = [open EXCEPT ![p] = TRUE]
    /\ selectedImage' = [selectedImage EXCEPT ![p] = FALSE]
    /\ queryText' = [queryText EXCEPT ![p] = <<>>]
    /\ isPlaying' = [isPlaying EXCEPT ![p] = FALSE]
    /\ isPaused' = [isPaused EXCEPT ![p] = FALSE]
    /\ speechRef' = [speechRef EXCEPT ![p] = FALSE]
    /\ speechSupported' = [speechSupported EXCEPT ![p] = speechInWindow]
    /\ ApplyHook(p, hookInitial)
    /\ IF p = "describe"
       THEN \E withProduct \in BOOLEAN :
               /\ productProp' = withProduct
               /\ isLoadingProductImage' = withProduct
       ELSE UNCHANGED productVars
    /\ UNCHANGED <<searchVars, serviceVars, speechInWindow, requests, sent,
                   orphanRequests,
                   synthQueue, synthPaused, utt, eventQueue>>

\* An unmount cleanup that leaves the synthesizer alone.
cleanupLeavesSpeech(c) == c

\* The unmount cleanup: if (speechRef.current) speechSynthesis.cancel().
cleanup(c) == IF c.speechRef THEN synthCancel(c) ELSE c

\* Close that lets the panel's requests go with it.
CloseAbortsRequests(p) ==
    /\ open[p]
    /\ LET c == cleanup(SpeechCtx(p))
       IN  /\ synthQueue' = c.queue
           /\ synthPaused' = c.paused
           /\ utt' = [id \in UtteranceIds |->
                        IF c.utt[id].owner # p THEN c.utt[id]
                        ELSE IF id \in Queued(c.queue)
                             THEN [c.utt[id] EXCEPT !.owner = "none"]
                             ELSE FreeUtterance]
           /\ eventQueue' =
                 SelectSeq(c.events,
                           LAMBDA e : c.utt[e.id].owner # p
                                         \/ e.id \in Queued(c.queue))
    /\ open' = [open EXCEPT ![p] = FALSE]
    /\ selectedImage' = [selectedImage EXCEPT ![p] = FALSE]
    /\ queryText' = [queryText EXCEPT ![p] = <<>>]
    /\ isPlaying' = [isPlaying EXCEPT ![p] = FALSE]
    /\ isPaused' = [isPaused EXCEPT ![p] = FALSE]
    /\ speechRef' = [speechRef EXCEPT ![p] = FALSE]
    /\ speechSupported' = [speechSupported EXCEPT ![p] = FALSE]
    /\ ApplyHook(p, hookInitial)
    /\ requests' = [requests EXCEPT ![p] = 0]
    /\ sent' = [sent EXCEPT ![p] = NoRequest]
    /\ IF p = "describe"
       THEN productProp' = FALSE /\ isLoadingProductImage' = FALSE
       ELSE UNCHANGED productVars
    /\ UNCHANGED <<searchVars, serviceVars, speechInWindow, orphanRequests>>

\* onClose: setShow...(false). The panel unmounts: its cleanup runs, its
\* state is gone, the handlers of its utterances and the continuations of its
\* requests have no state left to set. Its requests stay on the wire.
Close(p) ==
    /\ open[p]
    /\ LET c == cleanup(SpeechCtx(p))
       IN  /\ synthQueue' = c.queue
           /\ synthPaused' = c.paused
           /\ utt' = [id \in UtteranceIds |->
                        IF c.utt[id].owner # p THEN c.utt[id]
                        ELSE IF id \in Queued(c.queue)
                             THEN [c.utt[id] EXCEPT !.owner = "none"]
                             ELSE FreeUtterance]
           /\ eventQueue' =
                 SelectSeq(c.events,
                           LAMBDA e : c.utt[e.id].owner # p
                                         \/ e.id \in Queued(c.queue))
    /\ open' = [open EXCEPT ![p] = FALSE]
    /\ selectedImage' = [selectedImage EXCEPT ![p] = FALSE]
    /\ queryText' = [queryText EXCEPT ![p] = <<>>]
    /\ isPlaying' = [isPlaying EXCEPT ![p] = FALSE]
    /\ isPaused' = [isPaused EXCEPT ![p] = FALSE]
    /\ speechRef' = [speechRef EXCEPT ![p] = FALSE]
    /\ speechSupported' = [speechSupported EXCEPT ![p] = FALSE]
    /\ ApplyHook(p, hookInitial)
    /\ requests' = [requests EXCEPT ![p] = 0]
    /\ sent' = [sent EXCEPT ![p] = NoRequest]
    /\ orphanRequests' = orphanRequests + requests[p]
    /\ IF p = "describe"
       THEN productProp' = FALSE /\ isLoadingProductImage' = FALSE
       ELSE UNCHANGED productVars
    /\ UNCHANGED <<searchVars, serviceVars, speechInWindow>>

\* ------------------------------------------------- the service wrappers
\* The most calls of the service wrappers in progress at once.
MaxCalls == 2

CallIds == 1..MaxCalls

\* An optional parameter: <<>> when omitted, <<v>> when given.
ModelNames == {<<>>, <<"">>, <<"gemini-2">>}
Streams == {<<>>, <<TRUE>>, <<FALSE>>}
Texts == {"", "red hat"}
Images == {"photo.jpg"}

\* SmartSellRequest.
SmartSellRequest ==
    [image : Images, text : Texts, model_name : ModelNames, stream : Streams]

\* What the backend answers (response.data), and how a POST fails.
ResponseBodies == {"body-1", "body-2"}
TransportErrors == {"Network Error", "Request failed with status code 500"}

\* a || b for an optional string: b when a is omitted or empty.
orDefault(opt, default) ==
    IF opt = <<>> \/ opt[1] = "" THEN default ELSE opt[1]

\* A conversion that answers 'true' for every stream parameter that is given.
streamToStringGiven(opt) ==
    IF opt # <<>> THEN "true" ELSE "false"

\* (params.stream || false).toString().
streamToString(opt) ==
    IF opt # <<>> /\ opt[1] THEN "true" ELSE "false"

\* The FormData of getProductRecommendation, in append order.
smartSellFormData(params) ==
    << <<"image", params.image>>,
       <<"text", params.text>>,
       <<"model_name", orDefault(params.model_name, "gemini-1.5-pro")>>,
       <<"stream", streamToString(params.stream)>> >>

\* The FormData of getFashionAdvice.
fashionFormData(image) == << <<"image", image>> >>

\* No call in this slot.
NoCall ==
    [pc |-> "free", params |-> <<>>, url |-> "", formData |-> <<>>,
     posts |-> 0, received |-> <<>>, outcome |-> <<>>]

\* axios.post(url, formData, ...): one POST goes out, the call awaits it.
axiosPost(url, formData) ==
    [pc |-> "awaiting", params |-> <<>>, url |-> url, formData |-> formData,
     posts |-> 1, received |-> <<>>, outcome |-> <<>>]

\* A wrapper that posts once more when the POST fails.
afterRejectRetries(call, err) ==
    IF call.posts < 2
    THEN [call EXCEPT !.posts = @ + 1, !.received = <<"error", err>>]
    ELSE [call EXCEPT !.pc = "threw", !.received = <<"error", err>>,
                      !.outcome = <<"throw", err>>]

\* The await throws: the wrapper has no try/catch, the error goes to the
\* caller as it is.
afterReject(call, err) ==
    [call EXCEPT !.pc = "threw", !.received = <<"error", err>>,
                 !.outcome = <<"throw", err>>]

\* return response.data.
afterResolve(call, data) ==
    [call EXCEPT !.pc = "returned", !.received = <<"response", data>>,
                 !.outcome = <<"return", data>>]

ServiceInit == calls = [id \in CallIds |-> NoCall]

serviceFrame == <<searchVars, panelVars>>

\* SmartSellService.getProductRecommendation(params), up to its await.
getProductRecommendation(id) ==
    /\ calls[id].pc = "free"
    /\ \E params \in SmartSellRequest :
          calls' = [calls EXCEPT ![id] =
                       [axiosPost("/sell-product-from-query",
                                  smartSellFormData(params))
                          EXCEPT !.params = <<params>>]]
    /\ UNCHANGED serviceFrame

\* FashionService.getFashionAdvice(image), up to its await.
getFashionAdvice(id) ==
    /\ calls[id].pc = "free"
    /\ \E image \in Images :
          calls' = [calls EXCEPT ![id] =
                       [axiosPost("/assistant-fashion", fashionFormData(image))
                          EXCEPT !.params = <<image>>]]
    /\ UNCHANGED serviceFrame

\* The POST of call id is answered.
PostResolves(id) ==
    /\ calls[id].pc = "awaiting"
    /\ \E data \in ResponseBodies :
          calls' = [calls EXCEPT ![id] = afterResolve(calls[id], data)]
    /\ UNCHANGED serviceFrame

\* The POST of call id fails.
PostRejects(id) ==
    /\ calls[id].pc = "awaiting"
    /\ \E err \in TransportErrors :
          calls' = [calls EXCEPT ![id] = afterReject(calls[id], err)]
    /\ UNCHANGED serviceFrame

\* The caller has the value or the error: the call is over.
CallEnds(id) ==
    /\ calls[id].pc \in {"returned", "threw"}
    /\ calls' = [calls EXCEPT ![id] = NoCall]
    /\ UNCHANGED serviceFrame

ServiceNext ==
    \/ \E id \in CallIds : getProductRecommendation(id)
    \/ \E id \in CallIds : getFashionAdvice(id)
    \/ \E id \in CallIds : PostResolves(id)
    \/ \E id \in CallIds : PostRejects(id)
    \/ \E id \in CallIds : CallEnds(id)

\* ------------------------------------------------------ the specification
PanelNext ==
    \/ \E p \in Panels : Open(p)
    \/ \E p \in Panels : Close(p)
    \/ \E p \in Panels : SelectImage(p)
    \/ ProductImageLoaded
    \/ ProductImageFails
    \/ SetQueryText
    \/ \E p \in Panels : handleRequest(p)
    \/ \E p \in Panels : requestResolved(p)
    \/ \E p \in Panels : requestRejected(p)
    \/ OrphanRequestEnds
    \/ \E p \in Panels : TryAgain(p)
    \/ \E p \in Panels : handleStartOver(p)
    \/ \E p \in Panels : Play(p)
    \/ \E p \in Panels : Pause(p)
    \/ \E p \in Panels : Resume(p)
    \/ \E p \in Panels : Stop(p)
    \/ SynthStarts
    \/ SynthEnds
    \/ SynthFails
    \/ DeliverEvent

\* The panels, with the product list page left as it is after mounting.
Init == SearchInit /\ PanelInit /\ ServiceInit

Next == PanelNext

Spec == Init /\ [][Next]_vars

\* The product list page and its search, with the panels left closed.
SearchSpecInit ==
    SearchInit /\ PanelInit /\ ServiceInit /\ speechInWindow = TRUE

SpecSearch == SearchSpecInit /\ [][SearchNext]_vars

\* The page after its list was fetched, in a browser without speech
\* synthesis: the search bar and the panels with their requests.
PageProductLists ==
    {list \in ProductLists :
        /\ Len(list) = 2
        /\ list[1].name # list[2].name
        /\ list[1].description = <<>> /\ list[1].categories = <<>>
        /\ list[2].description # <<>> /\ Len(list[2].categories) = 2}

PageInit ==
    /\ products \in PageProductLists
    /\ loading = FALSE
    /\ listError = Null
    /\ searchQuery = <<>>
    /\ images = [i \in ImageIds |-> NoImage]
    /\ highlight = NoHighlight
    /\ PanelInit
    /\ speechInWindow = FALSE
    /\ ServiceInit

PageNext ==
    \/ SetSearchQuery
    \/ \E p \in Panels : Open(p)
    \/ \E p \in Panels : Close(p)
    \/ \E p \in Panels : SelectImage(p)
    \/ ProductImageLoaded
    \/ ProductImageFails
    \/ SetQueryText
    \/ \E p \in Panels : handleRequest(p)
    \/ \E p \in Panels : requestResolved(p)
    \/ \E p \in Panels : requestRejected(p)
    \/ OrphanRequestEnds
    \/ \E p \in Panels : TryAgain(p)
    \/ \E p \in Panels : handleStartOver(p)

SpecPage == PageInit /\ [][PageNext]_vars

\* Two panels that show their results, in a browser with speech synthesis:
\* the voice controls and the synthesizer, which does its work in the end.
SpeechInit ==
    /\ SearchInit
    /\ ServiceInit
    /\ speechInWindow = TRUE
    /\ open = [p \in Panels |-> p \in {"describe", "fashion"}]
    /\ selectedImage = open
    /\ speechSupported = open
    /\ result = [p \in Panels |-> IF open[p] THEN "Looks great" ELSE Null]
    /\ queryText = [p \in Panels |-> <<>>]
    /\ isPlaying = [p \in Panels |-> FALSE]
    /\ isPaused = [p \in Panels |-> FALSE]
    /\ speechRef = [p \in Panels |-> FALSE]
    /\ isLoading = [p \in Panels |-> FALSE]
    /\ error = [p \in Panels |-> Null]
    /\ requests = [p \in Panels |-> 0]
    /\ sent = [p \in Panels |-> NoRequest]
    /\ orphanRequests = 0
    /\ synthQueue = <<>>
    /\ synthPaused = FALSE
    /\ utt = [id \in UtteranceIds |-> FreeUtterance]
    /\ eventQueue = <<>>
    /\ productProp = FALSE
    /\ isLoadingProductImage = FALSE

SpeechNext ==
    \/ \E p \in Panels : Play(p)
    \/ \E p \in Panels : Pause(p)
    \/ \E p \in Panels : Resume(p)
    \/ \E p \in Panels : Stop(p)
    \/ SynthStarts
    \/ SynthEnds
    \/ SynthFails
    \/ DeliverEvent

\* The browser runs every queued event handler; the synthesizer, whenever
\* it is not paused, begins the utterance at the head of its queue and speaks
\* it to its end.
SpeechFairness ==
    /\ WF_vars(DeliverEvent)
    /\ SF_vars(SynthStarts)
    /\ SF_vars(SynthEnds)

SpecSpeech == SpeechInit /\ [][SpeechNext]_vars /\ SpeechFairness

\* The pictures of a page just rendered, each loading, the rest left alone.
ImagesSpecInit ==
    /\ products = <<>>
    /\ loading = FALSE
    /\ listError = Null
    /\ searchQuery = <<>>
    /\ images \in [ImageIds -> {newImage(picture) : picture \in Pictures}]
    /\ highlight = NoHighlight
    /\ PanelInit
    /\ speechInWindow = FALSE
    /\ ServiceInit

SpecImages == ImagesSpecInit /\ [][ImagesNext]_vars

\* highlightSearchTerm called with every text and term, the rest left alone.
SpecHighlight == SearchSpecInit /\ [][HighlightNext]_vars

\* The service wrappers, called with every request, the pages left alone.
ServiceSpecInit ==
    SearchInit /\ PanelInit /\ ServiceInit /\ speechInWindow = TRUE

SpecService == ServiceSpecInit /\ [][ServiceNext]_vars

\* ------------------------------------------------------ the search filter
\* s contains q as a substring, letter case ignored: at some offset every
\* character of q equals the character of s up to case.
ContainsIgnoringCase(s, q) ==
    \E k \in 0..(Len(s) - Len(q)) :
        \A i \in 1..Len(q) : toLowerCaseChar(s[k + i]) = toLowerCaseChar(q[i])

\* The name, the description or at least one category contains q.
MatchesQuery(pr, q) ==
    \/ ContainsIgnoringCase(pr.name, q)
    \/ ContainsIgnoringCase(pr.description, q)
    \/ \E i \in 1..Len(pr.categories) : ContainsIgnoringCase(pr.categories[i], q)

\* The products of the fetched list that match q, in the list's order.
ExactlyTheMatches(q) == SelectSeq(products, LAMBDA pr : MatchesQuery(pr, q))

\* C1, as stated: for every product list and every non-empty query the
\* filter returns exactly the products whose name, description or a category
\* contains the query, case ignored. False for a query with white space
\* around it, or of white space only.
C1_AsStated ==
    searchQuery # <<>> => filteredProducts = ExactlyTheMatches(searchQuery)

\* C1, amended: for every product list and every query that is not blank,
\* the filter returns exactly the products whose name, description or a
\* category contains the trimmed query, case ignored, and no other product.
C1_ExactMatchesOfTrimmedQuery ==
    trim(searchQuery) # <<>> =>
        filteredProducts = ExactlyTheMatches(trim(searchQuery))

\* A query with white space around an upper-case letter keeps one product
\* of two.
C1_Witness ==
    /\ Len(products) = 2
    /\ Len(filteredProducts) = 1
    /\ searchQuery = <<" ", "A">>

\* C2: with the empty query the filter returns the fetched list itself:
\* every product, in the same order.
C2_EmptyQueryReturnsAll ==
    searchQuery = <<>> => filteredProducts = products

\* The query is empty again after a list of two products was fetched.
C2_Witness ==
    /\ searchQuery = <<>>
    /\ ~loading
    /\ Len(products) = 2
    /\ products[1] # products[2]

\* ------------------------------------------------------------ the speech
\* C3: in each panel, every Play that starts a new utterance first cancels
\* the synthesizer: after the step the queue holds the new utterance alone,
\* and every utterance that was in the queue before (pending, speaking or
\* paused) has been cancelled.
C3_PlayCancelsFirst ==
    [][\A p \in Panels : \A id \in UtteranceIds :
          (Play(p) /\ utt[id].phase = "free" /\ utt'[id].phase = "queued") =>
              /\ synthQueue' = <<id>>
              /\ \A old \in Queued(synthQueue) :
                    /\ utt'[old].phase = "done"
                    /\ \E i \in 1..Len(eventQueue') :
                          eventQueue'[i] =
                             [id |-> old, type |-> "error", code |-> "canceled"]
      ]_vars

\* A panel's new utterance is alone in the queue while the utterance it
\* replaced still has its cancellation to be delivered.
C3_Witness ==
    \E id, old \in UtteranceIds :
        /\ id # old
        /\ synthQueue = <<id>>
        /\ utt[id].phase = "queued"
        /\ utt[old].phase = "done"
        /\ utt[old].owner = utt[id].owner
        /\ eventQueue # <<>>
        /\ eventQueue[Len(eventQueue)] =
              [id |-> old, type |-> "error", code |-> "canceled"]

\* C5: whatever the panels do, the synthesizer's queue holds at most one
\* utterance (pending, speaking or paused).
C5_AtMostOneUtterance == Len(synthQueue) <= 1

\* One utterance is in the queue, paused, and a cancelled one is not yet
\* forgotten.
C5_Witness ==
    /\ Len(synthQueue) = 1
    /\ synthPaused
    /\ \E id \in UtteranceIds : utt[id].phase = "done"

\* C6: the speech handlers are guarded no-ops. Without speech support play,
\* pause, resume and stop leave the flags, the ref and the synthesizer as
\* they are; play does nothing without a result text; pause does nothing
\* unless the synthesizer is speaking and not paused; resume does nothing
\* unless the synthesizer is paused.
C6_GuardedNoOps ==
    \A p \in OpenPanels :
        LET c == SpeechCtx(p)
        IN  /\ \A text \in ResponseTexts \cup {Null} :
                  play(c, p, FALSE, text) = c
            /\ pause(c, FALSE) = c
            /\ resume(c, FALSE) = c
            /\ stop(c, FALSE) = c
            /\ \A text \in {Null, ""} : play(c, p, speechSupported[p], text) = c
            /\ ~(synthSpeaking(c) /\ ~synthPaused) =>
                  pause(c, speechSupported[p]) = c
            /\ ~synthPaused => resume(c, speechSupported[p]) = c

\* The Pause button is shown while nothing is being spoken, and elsewhere a
\* panel without speech support shows a result.
C6_Witness ==
    \E p \in Panels :
        /\ PauseButton(p)
        /\ ~synthSpeaking(SpeechCtx(p))
        /\ ~synthPaused

\* C7: in every state of every panel the flags are (false,false),
\* (true,false) or (true,true): isPaused is never true with isPlaying false.
C7_PausedOnlyWhilePlaying ==
    \A p \in Panels : isPaused[p] => isPlaying[p]

\* A panel is paused.
C7_Witness ==
    \E p \in Panels : isPaused[p] /\ isPlaying[p] /\ synthPaused

\* ---------------------------------------------------------- the requests
\* C4: when a request fails, the panel's error becomes a non-empty message
\* and the result held before is left as it was.
C4_FailureSetsErrorKeepsResult ==
    [][\A p \in Panels :
          requestRejected(p) =>
              /\ error'[p] # Null
              /\ error'[p] # ""
              /\ result'[p] = result[p]
      ]_vars

\* A panel shows the error of its failed request, the request being over.
C4_Witness ==
    \E p \in Panels :
        /\ open[p]
        /\ error[p] \in ErrorMessages
        /\ ~isLoading[p]
        /\ requests[p] = 0

\* C8, as stated: in every panel, whenever the error of a failed request is
\* displayed, a retry button is displayed with it.
C8_ErrorComesWithRetry ==
    \A p \in Panels : ErrorDisplayed(p) => RetryButton(p)

\* C9: after handleReset / handleStartOver, and when a closed modal is
\* opened again, the panel holds no result, no selected image and an empty
\* query text.
C9_StartOverAndReopenDiscard ==
    [][\A p \in Panels :
          (handleStartOver(p) \/ (~open[p] /\ open'[p])) =>
              /\ result'[p] = Null
              /\ ~selectedImage'[p]
              /\ queryText'[p] = <<>>
      ]_vars

\* A panel that has played its result is back in the setup view with no
\* image: it was started over.
C9_Witness ==
    \E p \in Panels :
        /\ open[p]
        /\ speechRef[p]
        /\ result[p] = Null
        /\ ~selectedImage[p]
        /\ queryText[p] = <<>>

UserAction(p) ==
    \/ Play(p)
    \/ Pause(p)
    \/ Resume(p)
    \/ Stop(p)
    \/ handleStartOver(p)
    \/ Close(p)

\* The utterances of panel q in the synthesizer's queue.
QueuedOf(q, queue, u) == {id \in Queued(queue) : u[id].owner = q}

\* The flags of panel q say what is being spoken for it: playing exactly
\* when an utterance of q has begun and is still in the queue.
FlagsAgree(q, playing, queue, u) ==
    playing[q] <=> \E id \in QueuedOf(q, queue, u) : u[id].phase = "speaking"

\* C11, as stated: an action in one open panel never cancels, pauses or
\* otherwise changes the speech started by another panel, nor makes the
\* other panel's flags disagree with what is being spoken.
C11_AsStated ==
    [][\A p \in Panels : \A q \in OpenPanels \ {p} :
          UserAction(p) =>
              /\ \A id \in QueuedOf(q, synthQueue, utt) :
                    id \in Queued(synthQueue') /\ utt'[id] = utt[id]
              /\ QueuedOf(q, synthQueue, utt) # {} => synthPaused' = synthPaused
              /\ FlagsAgree(q, isPlaying, synthQueue, utt) =>
                    FlagsAgree(q, isPlaying', synthQueue', utt')
      ]_vars

\* C11, amended: the panels share one mutable resource, the browser's
\* speech synthesizer. An action in one open panel never writes another
\* panel's own state (flags, utterance ref, image, query text, request
\* state), but it may cancel or pause the other panel's speech; an utterance
\* of the other panel that leaves the queue in the step is cancelled with an
\* error event for its handlers.
C11_OnlyTheSynthesizerIsShared ==
    [][\A p \in Panels : \A q \in OpenPanels \ {p} :
          UserAction(p) =>
              /\ isPlaying'[q] = isPlaying[q]
              /\ isPaused'[q] = isPaused[q]
              /\ speechRef'[q] = speechRef[q]
              /\ speechSupported'[q] = speechSupported[q]
              /\ selectedImage'[q] = selectedImage[q]
              /\ queryText'[q] = queryText[q]
              /\ isLoading'[q] = isLoading[q]
              /\ error'[q] = error[q]
              /\ result'[q] = result[q]
              /\ requests'[q] = requests[q]
              /\ \A id \in QueuedOf(q, synthQueue, utt) :
                    id \notin Queued(synthQueue') =>
                        /\ utt'[id] = [owner |-> q, phase |-> "done"]
                        /\ \E i \in 1..Len(eventQueue') :
                              eventQueue'[i] =
                                 [id |-> id, type |-> "error",
                                  code |-> "canceled"]
      ]_vars

\* Panel q still shows its result as playing while its utterance has been
\* cancelled and the queue holds the utterance of another open panel.
C11_Witness ==
    \E q \in Panels : \E id, old \in UtteranceIds :
        /\ ResultView(q)
        /\ isPlaying[q]
        /\ utt[old] = [owner |-> q, phase |-> "done"]
        /\ \E i \in 1..Len(eventQueue) :
              eventQueue[i] = [id |-> old, type |-> "error", code |-> "canceled"]
        /\ synthQueue = <<id>>
        /\ utt[id].owner \in OpenPanels \ {q}

\* ----------------------------------------------------- the service calls
\* C12: each call of a service wrapper issues exactly one POST, and either
\* returns the body of the response or throws the transport error to its
\* caller; it never posts again.
C12_OnePostReturnOrPropagate ==
    \A id \in CallIds :
        /\ calls[id].pc # "free" => calls[id].posts = 1
        /\ calls[id].pc = "awaiting" => calls[id].outcome = <<>>
        /\ calls[id].pc = "returned" =>
              /\ calls[id].received[1] = "response"
              /\ calls[id].outcome = <<"return", calls[id].received[2]>>
        /\ calls[id].pc = "threw" =>
              /\ calls[id].received[1] = "error"
              /\ calls[id].outcome = <<"throw", calls[id].received[2]>>

\* One call has thrown the error of its failed POST while another has
\* returned the body of its response.
C12_Witness ==
    \E a, b \in CallIds :
        /\ calls[a].pc = "threw"
        /\ calls[a].outcome = <<"throw", "Network Error">>
        /\ calls[a].url = "/sell-product-from-query"
        /\ calls[b].pc = "returned"
        /\ calls[b].url = "/assistant-fashion"

\* ------------------------------------------------------- the product data
\* C13: no client operation (a new search query and its filtering, opening
\* and closing panels, sending AI requests and getting their answers)
\* changes the fetched product list or a field of a product.
C13_ProductsNeverMutated == [][products' = products]_vars

\* The filter hides a product of the fetched list while a panel shows the
\* result of its request.
C13_Witness ==
    /\ Len(products) = 2
    /\ Len(filteredProducts) = 1
    /\ \E p \in Panels : ResultView(p)

\* ------------------------------------------------------ flags and speech
\* The utterance event at the head of the browser's queue is for panel p.
NextEventOf(p) == eventQueue # <<>> /\ utt[Head(eventQueue).id].owner = p

\* C14, as stated: when an utterance's start event fires its panel is
\* (isPlaying, not isPaused), when its end or error event fires both flags
\* are false; and, the synthesizer finishing or failing every utterance that
\* is not paused, a panel that is playing and not paused does not stay so
\* for ever: it returns to idle (or is paused by its user).
C14_AsStated ==
    /\ [][\A p \in Panels :
            (DeliverEvent /\ NextEventOf(p)) =>
                /\ isPlaying'[p] = (Head(eventQueue).type = "start")
                /\ ~isPaused'[p]
        ]_vars
    /\ \A p \in Panels :
          (isPlaying[p] /\ ~isPaused[p]) ~> (~isPlaying[p] \/ isPaused[p])

\* Panel p has a newer utterance than id being spoken (or paused).
NewerSpeaking(p, id) ==
    \E new \in QueuedOf(p, synthQueue, utt) \ {id} : utt[new].phase = "speaking"

\* C15, as stated: the events of an utterance that is no longer the panel's
\* current one change nothing. A late end or error event of an earlier,
\* cancelled utterance does not reset the flags while a newer utterance of
\* the panel is playing, and a late start event of an utterance that was
\* cancelled (by stop, start-over or a new play) does not set isPlaying.
C15_AsStated ==
    [][\A p \in Panels :
          (DeliverEvent /\ NextEventOf(p)) =>
              LET e == Head(eventQueue)
              IN  /\ (e.type # "start" /\ NewerSpeaking(p, e.id)) =>
                        (isPlaying'[p] = isPlaying[p]
                            /\ isPaused'[p] = isPaused[p])
                  /\ (e.type = "start" /\ e.id \notin Queued(synthQueue)) =>
                        isPlaying'[p] = isPlaying[p]
      ]_vars

\* C16, as stated: the isPaused flags agree with the synthesizer's paused
\* state. When no panel is paused (in particular after a pause followed by
\* stop, start-over or close) the synthesizer is not paused, and a paused
\* panel means a paused synthesizer.
C16_AsStated ==
    /\ (\A p \in Panels : ~isPaused[p]) => ~synthPaused
    /\ (\E p \in Panels : isPaused[p]) => synthPaused

\* No panel holds its playback paused.
NoPanelPaused == \A p \in Panels : ~isPaused[p]

\* C17, as stated: whenever Play has put an utterance in the queue (speech
\* supported, result text not empty) and no panel is paused, the synthesizer
\* being fair, the utterance begins, so that its panel reaches the playing
\* state; also when the playback before was stopped, reset or closed while
\* paused. Here: the utterance does not wait in the queue for ever.
C17_AsStated ==
    \A id \in UtteranceIds :
        (utt[id].phase = "queued" /\ utt[id].owner \in Panels /\ NoPanelPaused)
            ~> (utt[id].phase # "queued" \/ ~NoPanelPaused)

\* The setup view of panel p has an image or a way to one: an image is
\* selected, the upload control is rendered, or the product picture is loading.
CanGetImage(p) ==
    \/ selectedImage[p]
    \/ ImageUpload(p)
    \/ p = "describe" /\ isLoadingProductImage

\* C18, as stated: in the describe panel opened with a product, after
\* "Analyze Another Image" (handleReset) the panel has a selected image again,
\* or is loading one, or offers the upload control, so that the Describe
\* button can become enabled again.
C18_AsStated ==
    [][(handleStartOver("describe") /\ productProp) => CanGetImage("describe")']_vars

\* Text t is text q without its leading and trailing white space.
IsTrimmed(t, q) ==
    /\ t # <<>> => ~IsWhiteSpace(t[1]) /\ ~IsWhiteSpace(t[Len(t)])
    /\ \E i \in 0..Len(q) :
          /\ i + Len(t) <= Len(q)
          /\ t = SubSeq(q, i + 1, i + Len(t))
          /\ \A k \in 1..Len(q) :
                (k <= i \/ k > i + Len(t)) => IsWhiteSpace(q[k])

\* C19: no request is sent without its inputs. A step that puts a request of
\* panel p on the wire is taken with an image selected, and the request carries
\* it; a request of smart sell is sent only with a query that is not blank, and
\* the text it carries is the query without its leading and trailing white
\* space.
C19_RequestsCarryTheirInputs ==
    [][\A p \in Panels :
          requests'[p] > requests[p] =>
              /\ selectedImage[p]
              /\ sent'[p].image
              /\ p = "smartsell" =>
                    /\ \E k \in 1..Len(queryText[p]) : ~IsWhiteSpace(queryText[p][k])
                    /\ sent'[p].text # <<>>
                    /\ IsTrimmed(sent'[p].text, queryText[p])
      ]_vars

\* A smart sell request is on the wire whose text is shorter than the query
\* typed: the white space was cut off.
C19_Witness ==
    /\ requests["smartsell"] > 0
    /\ sent["smartsell"].image
    /\ sent["smartsell"].text # <<>>
    /\ Len(sent["smartsell"].text) < Len(queryText["smartsell"])

\* The utterances of panel p that are in the synthesizer's queue.
SpeakingFor(p) == {id \in Queued(synthQueue) : utt[id].owner = p}

\* C20: speech never outlives the result it reads. "Start over" of a panel
\* that supports speech cancels the synthesizer and leaves both flags of the
\* panel false; the unmount of a panel that has made an utterance cancels the
\* synthesizer; and whenever the result of a panel goes away, none of the
\* utterances the panel had in the queue is in it afterwards.
C20_SpeechEndsWithResult ==
    [][\A p \in Panels :
          /\ (handleStartOver(p) /\ speechSupported[p]) =>
                /\ synthQueue' = <<>>
                /\ ~isPlaying'[p]
                /\ ~isPaused'[p]
          /\ (Close(p) /\ speechRef[p]) => synthQueue' = <<>>
          /\ (result[p] # Null /\ result'[p] = Null) =>
                SpeakingFor(p) \cap Queued(synthQueue') = {}
      ]_vars

\* A panel is back in its setup view after "start over" while it was
\* speaking: its utterance has left the queue and the event of the
\* cancellation is still to be delivered.
C20_Witness ==
    \E p \in Panels :
        /\ SetupView(p)
        /\ speechRef[p]
        /\ synthQueue = <<>>
        /\ ~isPlaying[p]
        /\ ~isPaused[p]
        /\ \E i \in 1..Len(eventQueue) :
              /\ eventQueue[i].code = "canceled"
              /\ utt[eventQueue[i].id].owner = p

\* C21: the describe panel opened with a product fetches the product's
\* picture by itself (the load is in progress right after the mount); when the
\* load succeeds the picture is the selected image, when it fails (a response
\* that is not ok, a rejected fetch) the selected image is what it was, and in
\* both cases isLoadingProductImage is false when the load has ended.
C21_ProductImageAutoLoad ==
    [][/\ (Open("describe") /\ productProp') =>
              isLoadingProductImage' /\ ~selectedImage'["describe"]
       /\ (Open("describe") /\ ~productProp') => ~isLoadingProductImage'
       /\ ProductImageLoaded =>
              selectedImage'["describe"] /\ ~isLoadingProductImage'
       /\ ProductImageFails =>
              selectedImage' = selectedImage /\ ~isLoadingProductImage'
      ]_vars

\* The load of the product's picture has failed: the panel is mounted with a
\* product, nothing is loading and no image is selected, before any request.
C21_Witness ==
    /\ open["describe"]
    /\ productProp
    /\ ~isLoadingProductImage
    /\ ~selectedImage["describe"]
    /\ result["describe"] = Null
    /\ requests["describe"] = 0
    /\ ~speechRef["describe"]

\* Every character of q is white space (q may be empty).
IsBlank(q) == \A k \in 1..Len(q) : IsWhiteSpace(q[k])

\* C22: the filter depends on the query only up to the white space around
\* it: the result for the query is the result for the query without its
\* leading and trailing white space, and a query of white space only returns
\* all the products.
C22_TrimInvariant ==
    /\ \A q \in Queries :
          IsTrimmed(q, searchQuery) =>
              filteredProductsOf(products, q) = filteredProducts
    /\ IsBlank(searchQuery) => filteredProducts = products

\* The query is a letter followed by white space, and it keeps one product of
\* two.
C22_Witness ==
    /\ searchQuery = <<"a", " ">>
    /\ Len(products) = 2
    /\ Len(filteredProducts) = 1

\* String q occurs in string s, letter for letter.
IsSubstring(q, s) ==
    \E k \in 0..(Len(s) - Len(q)) : SubSeq(s, k + 1, k + Len(q)) = q

RECURSIVE IsSubList(_, _)
\* List a is list b with some of its elements left out, the order kept.
IsSubList(a, b) ==
    IF a = <<>> THEN TRUE
    ELSE IF b = <<>> THEN FALSE
    ELSE IF Head(a) = Head(b) THEN IsSubList(Tail(a), Tail(b))
    ELSE IsSubList(a, Tail(b))

\* C23: the filter is monotone. For every query q1 that is a substring of the
\* query, the result for the query is a sub-list of the result for q1; and
\* the result is a sub-list of the product list, in the list's order.
C23_Monotone ==
    /\ \A q1 \in Queries :
          IsSubstring(q1, searchQuery) =>
              IsSubList(filteredProducts, filteredProductsOf(products, q1))
    /\ IsSubList(filteredProducts, products)

\* A query of two letters keeps one product of two, and its last letter
\* alone keeps both.
C23_Witness ==
    /\ searchQuery = <<"A", "b">>
    /\ Len(products) = 2
    /\ Len(filteredProducts) = 1
    /\ Len(filteredProductsOf(products, <<"b">>)) = 2

\* C24: ProductList shows one view, chosen in this order: the spinner while
\* loading; else the error (with its retry) when there is one; else the notice
\* of the empty catalog when the list is empty, whatever the query; else the
\* notice of no match when the query is not blank and nothing matches; else
\* the grid of the filtered products.
C24_ViewOrder ==
    LET failed == listError # Null
        none == filteredProducts = <<>>
    IN  /\ loading => ProductListView = "spinner"
        /\ (~loading /\ failed) => ProductListView = "error"
        /\ (~loading /\ ~failed /\ products = <<>>) =>
              ProductListView = "empty-catalog"
        /\ (~loading /\ ~failed /\ products # <<>> /\ ~IsBlank(searchQuery) /\ none) =>
              ProductListView = "no-match"
        /\ (~loading /\ ~failed /\ products # <<>> /\ (IsBlank(searchQuery) \/ ~none)) =>
              ProductListView = "grid"

\* The catalog is empty and a query is typed: the notice is the one of the
\* empty catalog.
C24_Witness ==
    /\ ~loading
    /\ listError = Null
    /\ products = <<>>
    /\ searchQuery = <<"b">>
    /\ ProductListView = "empty-catalog"

\* C25: the fallback of a product picture ends. The source of an img is
\* replaced by the placeholder at most once, and an img whose source is the
\* placeholder (or carries its name) keeps its source when its load fails:
\* the handling of the error cannot go round.
C25_FallbackEnds ==
    /\ [](\A i \in ImageIds : images[i].replaced <= 1)
    /\ [][\A i \in ImageIds :
             /\ (includes(images[i].src, PlaceholderName)
                   /\ images'[i] # images[i]) =>
                   /\ images'[i].src = images[i].src
                   /\ images'[i].status # "loading"
             /\ images'[i].src # images[i].src => images'[i].src = Placeholder
         ]_vars

\* The picture of an img failed, and then the placeholder failed as well.
C25_Witness ==
    \E i \in ImageIds :
        /\ images[i].src = Placeholder
        /\ images[i].status = "broken"
        /\ images[i].replaced = 1

\* The names of the fields of a form, in append order.
FieldNames(formData) == [i \in 1..Len(formData) |-> formData[i][1]]

\* C26: the form of getProductRecommendation has the fields image, text,
\* model_name and stream and no other, each once; image and text are the
\* parameters; model_name is the parameter, or 'gemini-1.5-pro' when it is
\* omitted or empty; stream is 'true' when the parameter is true and 'false'
\* when it is false or omitted.
C26_FormData ==
    \A id \in CallIds :
        calls[id].url = "/sell-product-from-query" =>
            LET form == calls[id].formData
                params == calls[id].params[1]
                value(name) ==
                    form[CHOOSE i \in 1..Len(form) : form[i][1] = name][2]
            IN  /\ Len(form) = 4
                /\ {form[i][1] : i \in 1..Len(form)} =
                      {"image", "text", "model_name", "stream"}
                /\ value("image") = params.image
                /\ value("text") = params.text
                /\ value("model_name") =
                      IF params.model_name \in {<<>>, <<"">>}
                      THEN "gemini-1.5-pro"
                      ELSE params.model_name[1]
                /\ value("stream") =
                      IF params.stream = <<TRUE>> THEN "true" ELSE "false"

\* A call with an empty model name and stream: false is awaiting its POST:
\* the form carries the default model and 'false'.
C26_Witness ==
    \E id \in CallIds :
        /\ calls[id].pc = "awaiting"
        /\ calls[id].url = "/sell-product-from-query"
        /\ calls[id].params[1].model_name = <<"">>
        /\ calls[id].params[1].stream = <<FALSE>>
        /\ FieldNames(calls[id].formData) =
              <<"image", "text", "model_name", "stream">>
        /\ calls[id].formData[3][2] = "gemini-1.5-pro"
        /\ calls[id].formData[4][2] = "false"

RECURSIVE Concat(_)
\* The texts of the parts, one after the other.
Concat(parts) ==
    IF parts = <<>> THEN <<>> ELSE Head(parts).part \o Concat(Tail(parts))

\* Part w is the term, letter for letter, the case of the letters ignored.
IsOccurrence(w, term) ==
    /\ Len(w) = Len(term)
    /\ \A i \in 1..Len(term) : toLowerCaseChar(w[i]) = toLowerCaseChar(term[i])

\* C27, as stated: highlightSearchTerm returns the text unchanged for a blank
\* term; otherwise its parts, put together in order, are the text, and the
\* marked parts are exactly the parts that are the search term, taken as a
\* literal string, letter case ignored.
C27_AsStated ==
    highlight.pc = "returned" =>
        IF IsBlank(highlight.term)
        THEN highlight.parts = <<[part |-> highlight.text, marked |-> FALSE]>>
        ELSE /\ Concat(highlight.parts) = highlight.text
             /\ \A i \in 1..Len(highlight.parts) :
                   highlight.parts[i].marked <=>
                       IsOccurrence(highlight.parts[i].part, highlight.term)

====
